---- MODULE Spec2Model ----
(***************************************************************************)
(* Model of src/editor/useBacklinks.ts: the backlink Finder (getBacklinks) *)
(* and the backlink Rewriter (updateBacklinks) over Slate document trees.  *)
(*                                                                         *)
(* A Slate node is a record.  A Text node carries a "text" field, an       *)
(* Element node a "children" field (plus "type" and, for note links,       *)
(* "noteId", "noteTitle", "isTextTitle").  Text.isText and                 *)
(* Element.isElement test for the presence of those fields, as Slate does, *)
(* so a node that carries both fields answers TRUE to both.                *)
(* Paths are sequences of 0-based indices, as in the source.               *)
(***************************************************************************)
EXTENDS Integers, Sequences, FiniteSets, TLC

VARIABLES user, noteId, notes, backlinks, db, outcome, newTitle, upsertData,
          firstShape, rounds

vars == <<user, noteId, notes, backlinks, db, outcome, newTitle, upsertData,
          firstShape, rounds>>

(***************************************************************************)
(* Bounds of the model.                                                    *)
(***************************************************************************)
MaxNodes == 4      \* nodes in the content trees of one collection of the hook
MaxLinkedNodes == 6 \* the same, for the collections the Rewriter is given directly
MaxNotes == 2      \* documents in a collection
MaxRounds == 2     \* calls of updateBacklinks in one behaviour
MaxPathLen == 3    \* length of a caller-supplied match path
MaxIndex == 1      \* largest index in a caller-supplied match path

(***************************************************************************)
(* Values the inputs are drawn from.                                       *)
(***************************************************************************)
NoteLink == "note-link"
Paragraph == "paragraph"
NoUser == "null"
Users == {"u1", "u2"}
Texts == {"", "a"}
NewTitles == {"", "X"}
OldTitle == "old"
TargetId == "n1"
LinkTargets == {"n1", "n2"}
IdOf(i) == "n" \o ToString(i)
TitleOf(i) == "T" \o ToString(i)

(***************************************************************************)
(* Slate's node predicates and Node.string.                                *)
(***************************************************************************)
IsText(node) == "text" \in DOMAIN node

IsElement(node) == "children" \in DOMAIN node

RECURSIVE NodeString(_)
RECURSIVE StringOfAll(_)
NodeString(node) ==
    IF IsText(node) THEN node.text ELSE StringOfAll(node.children)

StringOfAll(nodes) ==
    IF nodes = <<>> THEN "" ELSE NodeString(Head(nodes)) \o StringOfAll(Tail(nodes))

(***************************************************************************)
(* The Finder.                                                             *)
(***************************************************************************)
RECURSIVE getBacklinkMatchesHelper(_, _, _)
RECURSIVE HelperFrom(_, _, _, _)
\* HelperFrom with the slip of recording the parent's path for a match: the
\* index of the matching child is left out.
RECURSIVE HelperFromParentPath(_, _, _, _)
HelperFromParentPath(node, id, path, i) ==
    IF i >= Len(node.children) THEN <<>>
    ELSE LET child == node.children[i + 1]
             here == IF IsElement(child)
                     THEN (IF /\ child.type = NoteLink
                              /\ child.noteId = id
                              /\ NodeString(child) # ""
                           THEN << [context |-> NodeString(node), path |-> path] >>
                           ELSE <<>>)
                          \o getBacklinkMatchesHelper(child, id, path \o <<i>>)
                     ELSE <<>>
         IN here \o HelperFromParentPath(node, id, path, i + 1)

\* The loop of getBacklinkMatchesHelper over node.children from 0-based index i.
HelperFrom(node, id, path, i) ==
    IF i >= Len(node.children) THEN <<>>
    ELSE LET child == node.children[i + 1]
             here == IF IsElement(child)
                     THEN (IF /\ child.type = NoteLink
                              /\ child.noteId = id
                              /\ NodeString(child) # ""
                           THEN << [context |-> NodeString(node),
                                    path |-> path \o <<i>>] >>
                           ELSE <<>>)
                          \o getBacklinkMatchesHelper(child, id, path \o <<i>>)
                     ELSE <<>>
         IN here \o HelperFrom(node, id, path, i + 1)

getBacklinkMatchesHelper(node, id, path) ==
    IF IsText(node) THEN <<>> ELSE HelperFrom(node, id, path, 0)

RECURSIVE MatchesFrom(_, _, _)
MatchesFrom(nodes, id, i) ==
    IF i >= Len(nodes) THEN <<>>
    ELSE getBacklinkMatchesHelper(nodes[i + 1], id, <<i>>)
         \o MatchesFrom(nodes, id, i + 1)

getBacklinkMatches(nodes, id) == MatchesFrom(nodes, id, 0)

RECURSIVE getBacklinks(_, _)
getBacklinks(ns, id) ==
    IF ns = <<>> THEN <<>>
    ELSE LET note == Head(ns)
             matches == getBacklinkMatches(note.content, id)
         IN (IF Len(matches) > 0
             THEN << [id |-> note.id, title |-> note.title, matches |-> matches] >>
             ELSE <<>>)
            \o getBacklinks(Tail(ns), id)

(***************************************************************************)
(* The Rewriter.                                                           *)
(***************************************************************************)
Undefined == [status |-> "undefined"]
TypeError == [status |-> "throw"]
Found(node) == [status |-> "node", node |-> node]

\* nodes[i] of a JavaScript array: undefined outside the array.
At(nodes, i) == IF i + 1 \in DOMAIN nodes THEN Found(nodes[i + 1]) ELSE Undefined

\* The loop of lines 51-53: reading .children of undefined throws, and so does
\* indexing the undefined .children of a node that has none.
RECURSIVE Descend(_, _)
Descend(cur, rest) ==
    IF rest = <<>> THEN cur
    ELSE IF cur.status # "node" THEN TypeError
    ELSE IF ~IsElement(cur.node) THEN TypeError
    ELSE Descend(At(cur.node.children, Head(rest)), Tail(rest))

Resolve(content, path) == Descend(At(content, Head(path)), Tail(path))

\* linkNodeChild.text = newTitle
SetText(node, title) ==
    [f \in DOMAIN node \cup {"text"} |-> IF f = "text" THEN title ELSE node[f]]

\* PatchLink with the title appended to noteTitle instead of assigned.
PatchLinkAppend(linkNode, title) ==
    [linkNode EXCEPT
        !.noteTitle = @ \o title,
        !.children = IF linkNode.isTextTitle
                     THEN [i \in DOMAIN @ |-> SetText(@[i], title)]
                     ELSE @]

\* PatchLink without the isTextTitle test: the children's text is always replaced.
PatchLinkAlways(linkNode, title) ==
    [linkNode EXCEPT
        !.noteTitle = title,
        !.children = [i \in DOMAIN @ |-> SetText(@[i], title)]]

\* Lines 63-71, on the resolved note link.
PatchLink(linkNode, title) ==
    [linkNode EXCEPT
        !.noteTitle = title,
        !.children = IF linkNode.isTextTitle
                     THEN [i \in DOMAIN @ |-> SetText(@[i], title)]
                     ELSE @]

\* immer's produce: the draft's change at `path`, as a new tree.
RECURSIVE ReplaceAt(_, _, _)
ReplaceAt(nodes, path, new) ==
    [nodes EXCEPT ![Head(path) + 1] =
        IF Len(path) = 1 THEN new
        ELSE [@ EXCEPT !.children = ReplaceAt(@, Tail(path), new)]]

\* One produce call (lines 42-72) for one match.
Patch(content, path, title) ==
    IF Len(path) <= 0 THEN [threw |-> FALSE, content |-> content]
    ELSE LET r == Resolve(content, path)
         IN IF r.status = "throw" THEN [threw |-> TRUE, content |-> content]
            ELSE IF \/ r.status = "undefined"
                    \/ ~IsElement(r.node)
                    \/ r.node.type # NoteLink
                 THEN [threw |-> FALSE, content |-> content]
                 ELSE [threw |-> FALSE,
                       content |-> ReplaceAt(content, path, PatchLink(r.node, title))]

\* The loop over backlink.matches (lines 40-73).
RECURSIVE ApplyMatches(_, _, _)
ApplyMatches(content, matches, title) ==
    IF matches = <<>> THEN [threw |-> FALSE, content |-> content]
    ELSE LET one == Patch(content, Head(matches).path, title)
         IN IF one.threw THEN one
            ELSE ApplyMatches(one.content, Tail(matches), title)

\* notes.find((note) => note.id === backlink.id)?.content
RECURSIVE FindNote(_, _)
FindNote(ns, id) ==
    IF ns = <<>> THEN Undefined
    ELSE IF Head(ns).id = id THEN Found(Head(ns))
    ELSE FindNote(Tail(ns), id)

HasContent(ns, id) ==
    LET f == FindNote(ns, id)
    IN f.status = "node" /\ "content" \in DOMAIN f.node

ContentOf(ns, id) == FindNote(ns, id).node.content

\* RewriteAll with `break` for `continue`: a missing document ends the loop.
RECURSIVE RewriteAllBreak(_, _, _, _)
RewriteAllBreak(u, ns, bls, title) ==
    IF bls = <<>> THEN [threw |-> FALSE, data |-> <<>>]
    ELSE LET backlink == Head(bls)
         IN IF ~HasContent(ns, backlink.id)
            THEN [threw |-> FALSE, data |-> <<>>]
            ELSE LET patched == ApplyMatches(ContentOf(ns, backlink.id),
                                             backlink.matches, title)
                     rest == RewriteAllBreak(u, ns, Tail(bls), title)
                 IN IF patched.threw \/ rest.threw
                    THEN [threw |-> TRUE, data |-> <<>>]
                    ELSE [threw |-> FALSE,
                          data |-> << [id |-> backlink.id,
                                       title |-> backlink.title,
                                       user_id |-> u,
                                       content |-> patched.content] >>
                                   \o rest.data]

\* The loop over backlinks (lines 30-80): the batch handed to upsert, or a throw.
RECURSIVE RewriteAll(_, _, _, _)
RewriteAll(u, ns, bls, title) ==
    IF bls = <<>> THEN [threw |-> FALSE, data |-> <<>>]
    ELSE LET backlink == Head(bls)
         IN IF ~HasContent(ns, backlink.id)
            THEN RewriteAll(u, ns, Tail(bls), title)
            ELSE LET patched == ApplyMatches(ContentOf(ns, backlink.id),
                                             backlink.matches, title)
                     rest == RewriteAll(u, ns, Tail(bls), title)
                 IN IF patched.threw \/ rest.threw
                    THEN [threw |-> TRUE, data |-> <<>>]
                    ELSE [threw |-> FALSE,
                          data |-> << [id |-> backlink.id,
                                       title |-> backlink.title,
                                       user_id |-> u,
                                       content |-> patched.content] >>
                                   \o rest.data]

\* supabase upsert of one row, keyed by id.
RECURSIVE UpsertRow(_, _)
UpsertRow(rows, row) ==
    IF rows = <<>> THEN <<row>>
    ELSE IF Head(rows).id = row.id THEN <<row>> \o Tail(rows)
    ELSE <<Head(rows)>> \o UpsertRow(Tail(rows), row)

RECURSIVE Upsert(_, _)
Upsert(rows, data) ==
    IF data = <<>> THEN rows ELSE Upsert(UpsertRow(rows, Head(data)), Tail(data))

(***************************************************************************)
(* The document collections the behaviours start from.                     *)
(***************************************************************************)
ElementsOver(children, targets) ==
    { [type |-> Paragraph, children |-> children] }
    \cup { [type |-> NoteLink, noteId |-> t, noteTitle |-> OldTitle,
            isTextTitle |-> b, children |-> children]
           : t \in targets, b \in BOOLEAN }

\* Trees(n, ..): the nodes whose tree has exactly n nodes; Forests(n, ..): the
\* node sequences with n nodes in all.  Every element has at least one child.
RECURSIVE Trees(_, _, _)
RECURSIVE Forests(_, _, _)
Trees(n, texts, targets) ==
    IF n = 1 THEN { [text |-> t] : t \in texts }
    ELSE UNION { ElementsOver(children, targets)
                 : children \in Forests(n - 1, texts, targets) }

Forests(n, texts, targets) ==
    IF n = 0 THEN { <<>> }
    ELSE UNION { { <<t>> \o f : t \in Trees(k, texts, targets),
                                f \in Forests(n - k, texts, targets) }
                 : k \in 1..n }

\* The lists of k non-empty contents with at most `budget` nodes in all.
RECURSIVE ContentLists(_, _, _, _)
ContentLists(k, budget, texts, targets) ==
    IF k = 0 THEN { <<>> }
    ELSE UNION { { <<c>> \o r : c \in Forests(n, texts, targets),
                                r \in ContentLists(k - 1, budget - n, texts, targets) }
                 : n \in 1..(budget - (k - 1)) }

Note(i, owner, content) ==
    [id |-> IdOf(i), title |-> TitleOf(i), user_id |-> owner, content |-> content]

CollectionsOf(owner, budget, texts, targets) ==
    UNION { { [i \in 1..k |-> Note(i, owner, cs[i])]
              : cs \in ContentLists(k, budget, texts, targets) }
            : k \in 1..MaxNotes }

\* The collections of the hook: every kind of node.
Collections(owner) == CollectionsOf(owner, MaxNodes, Texts, LinkTargets)

\* Larger collections, of non-empty texts and of links to the target only.
LinkedCollections(owner) == CollectionsOf(owner, MaxLinkedNodes, {"a"}, {TargetId})

\* What the first Finder run matched: the documents and the match paths.
Shape(bls) ==
    [i \in DOMAIN bls |->
        [id |-> bls[i].id,
         paths |-> [k \in DOMAIN bls[i].matches |-> bls[i].matches[k].path]]]

(***************************************************************************)
(* The hook: useBacklinks(noteId) over the collection useNotes supplies.   *)
(***************************************************************************)
Init ==
    /\ user \in {NoUser, "u1"}
    /\ noteId = TargetId
    /\ \E owner \in Users : notes \in Collections(owner)
    /\ backlinks = getBacklinks(notes, noteId)
    /\ db = notes
    /\ outcome = "idle"
    /\ newTitle = ""
    /\ upsertData = <<>>
    /\ firstShape = Shape(backlinks)
    /\ rounds = 0

\* A call of the updateBacklinks callback (lines 24-86).
updateBacklinks(title) ==
    /\ rounds < MaxRounds
    /\ rounds' = rounds + 1
    /\ newTitle' = title
    /\ IF user = NoUser
       THEN /\ outcome' = "noUser"
            /\ upsertData' = <<>>
            /\ db' = db
       ELSE LET r == RewriteAll(user, notes, backlinks, title)
            IN IF r.threw
               THEN /\ outcome' = "threw"
                    /\ upsertData' = <<>>
                    /\ db' = db
               ELSE /\ outcome' = "ok"
                    /\ upsertData' = r.data
                    /\ db' = Upsert(db, r.data)
    /\ UNCHANGED <<user, noteId, notes, backlinks, firstShape>>

\* useNotes delivers the stored collection; useMemo recomputes the backlinks.
NotesChanged ==
    /\ notes # db
    /\ notes' = db
    /\ backlinks' = getBacklinks(db, noteId)
    /\ outcome' = "idle"
    /\ upsertData' = <<>>
    /\ UNCHANGED <<user, noteId, db, newTitle, firstShape, rounds>>

Next ==
    \/ \E title \in NewTitles : updateBacklinks(title)
    \/ NotesChanged

Spec == Init /\ [][Next]_vars

(***************************************************************************)
(* The Rewriter on backlinks computed from an earlier snapshot: since the  *)
(* Finder ran, documents have been deleted from the collection or have     *)
(* lost their content.                                                     *)
(***************************************************************************)
\* The views of `all` in which each document is kept (1), deleted (2) or
\* left without content (3).
RECURSIVE Stale(_, _)
Stale(all, fate) ==
    IF all = <<>> THEN <<>>
    ELSE (CASE Head(fate) = 1 -> << Head(all) >>
            [] Head(fate) = 2 -> <<>>
            [] OTHER -> << [id |-> Head(all).id, title |-> Head(all).title,
                            user_id |-> Head(all).user_id] >>)
         \o Stale(Tail(all), Tail(fate))

StaleViews(all) == { Stale(all, fate) : fate \in [1..Len(all) -> {1, 2, 3}] }

InitStale ==
    /\ user = "u1"
    /\ noteId = TargetId
    /\ \E all \in LinkedCollections("u1") :
          /\ backlinks = getBacklinks(all, noteId)
          /\ notes \in StaleViews(all)
    /\ db = notes
    /\ outcome = "idle"
    /\ newTitle = ""
    /\ upsertData = <<>>
    /\ firstShape = Shape(backlinks)
    /\ rounds = 0

NextRewrite == \E title \in NewTitles : updateBacklinks(title)

SpecStale == InitStale /\ [][NextRewrite]_vars

(***************************************************************************)
(* The Rewriter on backlinks a caller supplies: the Finder's matches of    *)
(* every document, with one arbitrary path among them.                     *)
(***************************************************************************)
RECURSIVE PathsUpTo(_)
PathsUpTo(n) ==
    IF n = 0 THEN { <<>> }
    ELSE PathsUpTo(n - 1)
         \cup { p \o <<i>> : p \in { q \in PathsUpTo(n - 1) : Len(q) = n - 1 },
                             i \in 0..MaxIndex }

InputPaths == PathsUpTo(MaxPathLen)

InsertAt(seq, k, x) == SubSeq(seq, 1, k - 1) \o <<x>> \o SubSeq(seq, k, Len(seq))

SuppliedBacklinks(ns) ==
    LET base == [i \in DOMAIN ns |->
                    [id |-> ns[i].id, title |-> ns[i].title,
                     matches |-> getBacklinkMatches(ns[i].content, TargetId)]]
    IN UNION { { [base EXCEPT ![j].matches = InsertAt(@, k, [context |-> "", path |-> p])]
                 : k \in 1..Len(base[j].matches) + 1, p \in InputPaths }
               : j \in DOMAIN ns }

InitFree ==
    /\ user = "u1"
    /\ noteId = TargetId
    /\ notes \in LinkedCollections("u1")
    /\ backlinks \in SuppliedBacklinks(notes)
    /\ db = notes
    /\ outcome = "idle"
    /\ newTitle = ""
    /\ upsertData = <<>>
    /\ firstShape = Shape(backlinks)
    /\ rounds = 0

SpecFree == InitFree /\ [][NextRewrite]_vars

(***************************************************************************)
(* Vocabulary of the properties.                                           *)
(***************************************************************************)
\* Every path of a node in `nodes`, at any depth.
RECURSIVE PathsIn(_)
PathsIn(nodes) ==
    UNION { {<<i - 1>>}
            \cup (IF IsElement(nodes[i])
                  THEN { <<i - 1>> \o p : p \in PathsIn(nodes[i].children) }
                  ELSE {})
            : i \in DOMAIN nodes }

\* The node at a path of PathsIn(nodes).
RECURSIVE NodeAt(_, _)
NodeAt(nodes, path) ==
    IF Len(path) = 1 THEN nodes[Head(path) + 1]
    ELSE NodeAt(nodes[Head(path) + 1].children, Tail(path))

Parent(path) == SubSeq(path, 1, Len(path) - 1)

IsLinkTo(node, id) ==
    IsElement(node) /\ node.type = NoteLink /\ node.noteId = id

\* The matches the backlinks hold for document `id`, and their paths.
MatchesFor(id) ==
    UNION { { backlinks[i].matches[k] : k \in DOMAIN backlinks[i].matches }
            : i \in { j \in DOMAIN backlinks : backlinks[j].id = id } }

MatchPaths(id) == { m.path : m \in MatchesFor(id) }

Records == { upsertData[i] : i \in DOMAIN upsertData }

(***************************************************************************)
(* C1.  Finder completeness: every document that holds, at any depth of    *)
(* its content (the top-level sequence included), a note link to the       *)
(* target with non-empty flattened text appears in getBacklinks with a     *)
(* match whose path is the path of that link.                              *)
(***************************************************************************)
C1_FinderComplete ==
    \A n \in DOMAIN notes :
        \A p \in PathsIn(notes[n].content) :
            LET node == NodeAt(notes[n].content, p)
                found == getBacklinks(notes, noteId)
            IN (IsLinkTo(node, noteId) /\ NodeString(node) # "")
               => \E b \in DOMAIN found :
                     /\ found[b].id = notes[n].id
                     /\ \E k \in DOMAIN found[b].matches : found[b].matches[k].path = p

(***************************************************************************)
(* C2.  Mirrored-text law: after a rewrite, the flattened text of every    *)
(* patched link whose isTextTitle is true equals newTitle exactly.         *)
(***************************************************************************)
C2_MirroredText ==
    outcome = "ok" =>
        \A r \in Records :
            \A p \in MatchPaths(r.id) :
                LET node == NodeAt(r.content, p)
                IN node.isTextTitle => NodeString(node) = newTitle

(***************************************************************************)
(* C7.  Patching a mirrored link replaces the text of its Text children    *)
(* only: an Element child gains no text field and loses no field.          *)
(***************************************************************************)
C7_ElementChildrenKept ==
    outcome = "ok" =>
        \A r \in Records :
            \A p \in MatchPaths(r.id) :
                LET before == NodeAt(ContentOf(notes, r.id), p)
                    after == NodeAt(r.content, p)
                IN before.isTextTitle =>
                     \A i \in DOMAIN before.children :
                        /\ DOMAIN after.children[i] = DOMAIN before.children[i]
                        /\ IsText(before.children[i]) => after.children[i].text = newTitle

(***************************************************************************)
(* C8.  Every record of the batch carries its document's id, the           *)
(* document's own stored title and the document's own owner identifier.    *)
(***************************************************************************)
C8_RecordMetadata ==
    outcome = "ok" =>
        \A i \in DOMAIN upsertData :
            LET doc == FindNote(notes, backlinks[i].id).node
            IN /\ upsertData[i].id = doc.id
               /\ upsertData[i].title = doc.title
               /\ upsertData[i].user_id = doc.user_id

(***************************************************************************)
(* C10.  In every later round the Finder returns the documents and match   *)
(* paths of the first round.                                               *)
(***************************************************************************)
C10_SameMatches == Shape(backlinks) = firstShape

(***************************************************************************)
(* C5.  Rewriter idempotence: applying the same backlinks' patches with    *)
(* the same newTitle to the patched content leaves it as it is.            *)
(***************************************************************************)
C5_Idempotent ==
    outcome = "ok" =>
        \A i \in DOMAIN upsertData :
            ApplyMatches(upsertData[i].content, backlinks[i].matches, newTitle)
              = [threw |-> FALSE, content |-> upsertData[i].content]

\* A rewrite with a non-empty title changed the content of a document that
\* holds a mirrored link.
C5_Witness ==
    /\ outcome = "ok"
    /\ newTitle # ""
    /\ \E i \in DOMAIN upsertData :
          /\ upsertData[i].content # ContentOf(notes, upsertData[i].id)
          /\ \E p \in MatchPaths(upsertData[i].id) :
                NodeAt(upsertData[i].content, p).isTextTitle

(***************************************************************************)
(* C6.  Patch locality: the patched content has the shape of the input     *)
(* content and differs from it only in the noteTitle of the matched links  *)
(* and in the text of the children of the matched links that mirror the    *)
(* title.                                                                  *)
(***************************************************************************)
C6_PatchLocal ==
    outcome = "ok" =>
        \A r \in Records :
            LET before == ContentOf(notes, r.id)
                matched == MatchPaths(r.id)
                mirrored(p) == /\ Len(p) >= 2
                               /\ Parent(p) \in matched
                               /\ NodeAt(before, Parent(p)).isTextTitle
            IN /\ PathsIn(r.content) = PathsIn(before)
               /\ \A p \in PathsIn(before) :
                     LET a == NodeAt(before, p)
                         b == NodeAt(r.content, p)
                     IN /\ DOMAIN b \ {"text"} = DOMAIN a \ {"text"}
                        /\ \A f \in DOMAIN a \ {"text", "children", "noteTitle"} :
                              b[f] = a[f]
                        /\ IsElement(a) => Len(b.children) = Len(a.children)
                        /\ ("noteTitle" \in DOMAIN a /\ p \notin matched)
                              => b.noteTitle = a.noteTitle
                        /\ ~mirrored(p) =>
                              /\ IsText(b) <=> IsText(a)
                              /\ IsText(a) => b.text = a.text

\* A rewrite changed a document that also holds a matched link that does not
\* mirror the title and a node that is neither matched nor inside a match.
C6_Witness ==
    /\ outcome = "ok"
    /\ newTitle # ""
    /\ \E r \in Records :
          LET before == ContentOf(notes, r.id)
          IN /\ r.content # before
             /\ \E p \in MatchPaths(r.id) : ~NodeAt(before, p).isTextTitle
             /\ \E p \in PathsIn(before) :
                   /\ IsText(NodeAt(before, p))
                   /\ NodeAt(before, p).text # ""
                   /\ Parent(p) \notin MatchPaths(r.id)

(***************************************************************************)
(* C9.  Every match path of getBacklinks resolves, in the content it was   *)
(* computed from and in the content after the earlier matches of its       *)
(* backlink are patched, to a note link to the target; the rewrite of the  *)
(* Finder's output never throws and leaves every matched link with         *)
(* noteTitle = newTitle.                                                   *)
(***************************************************************************)
C9_PathsStayValid ==
    /\ outcome # "threw"
    /\ \A i \in DOMAIN backlinks :
          \A k \in DOMAIN backlinks[i].matches :
             \A title \in NewTitles :
                LET path == backlinks[i].matches[k].path
                    cur == ApplyMatches(ContentOf(notes, backlinks[i].id),
                                        SubSeq(backlinks[i].matches, 1, k - 1),
                                        title).content
                    r == Resolve(cur, path)
                IN /\ Len(path) > 0
                   /\ r.status = "node"
                   /\ IsLinkTo(r.node, noteId)
    /\ outcome = "ok" =>
          /\ Len(upsertData) = Len(backlinks)
          /\ \A i \in DOMAIN upsertData :
                \A k \in DOMAIN backlinks[i].matches :
                   LET r == Resolve(upsertData[i].content, backlinks[i].matches[k].path)
                   IN r.status = "node" /\ r.node.noteTitle = newTitle

\* A rewrite patched a mirrored link and then a link nested inside it.
C9_Witness ==
    /\ outcome = "ok"
    /\ \E i \in DOMAIN backlinks :
          \E k \in DOMAIN backlinks[i].matches :
             /\ k > 1
             /\ backlinks[i].matches[k - 1].path = Parent(backlinks[i].matches[k].path)
             /\ NodeAt(ContentOf(notes, backlinks[i].id),
                       backlinks[i].matches[k - 1].path).isTextTitle

(***************************************************************************)
(* C3.  A match whose path is empty, runs out of range, passes through a   *)
(* Text node or ends at a node that is not a note link is a no-op: the     *)
(* rewrite raises no error and its batch is the one the resolvable matches *)
(* alone produce.                                                          *)
(***************************************************************************)
Resolvable(content, path) ==
    /\ Len(path) > 0
    /\ path \in PathsIn(content)
    /\ IsElement(NodeAt(content, path))
    /\ NodeAt(content, path).type = NoteLink

ResolvableOnly(bls) ==
    [i \in DOMAIN bls |->
        IF HasContent(notes, bls[i].id)
        THEN LET ok(m) == Resolvable(ContentOf(notes, bls[i].id), m.path)
             IN [bls[i] EXCEPT !.matches = SelectSeq(@, ok)]
        ELSE bls[i]]

C3_UnresolvableNoOp ==
    outcome # "idle" =>
        /\ outcome = "ok"
        /\ upsertData = RewriteAll(user, notes, ResolvableOnly(backlinks), newTitle).data

(***************************************************************************)
(* C4.  A backlink whose document is missing from the collection, or has   *)
(* no content, is skipped and the others are processed: the batch holds    *)
(* one record for each backlink whose document is found, in backlink       *)
(* order, each with its matched links retitled.                            *)
(***************************************************************************)
C4_MissingSkipped ==
    outcome # "idle" =>
        LET present(b) == HasContent(notes, b.id)
            kept == SelectSeq(backlinks, present)
        IN /\ outcome = "ok"
           /\ Len(upsertData) = Len(kept)
           /\ \A i \in DOMAIN kept :
                 /\ upsertData[i].id = kept[i].id
                 /\ \A k \in DOMAIN kept[i].matches :
                       NodeAt(upsertData[i].content, kept[i].matches[k].path).noteTitle
                         = newTitle

\* A rewrite skipped a backlink whose document is missing and produced the
\* record of a later backlink.
C4_Witness ==
    /\ outcome = "ok"
    /\ \E i, j \in DOMAIN backlinks :
          /\ i < j
          /\ ~HasContent(notes, backlinks[i].id)
          /\ HasContent(notes, backlinks[j].id)
          /\ Len(upsertData) = 1
          /\ upsertData[1].id = backlinks[j].id
          /\ upsertData[1].content # ContentOf(notes, backlinks[j].id)

====
